---- MODULE Spec2Model ----
(***************************************************************************)
(* The OTLP ingestion handlers of backend/otel/otel.go: HandleTrace and    *)
(* HandleLog.  One behaviour is one HTTP request: the body is decoded, the *)
(* batch is traversed (resource, scope, span, event / resource, scope, log *)
(* record), records are grouped into the three maps traceErrors,           *)
(* projectErrors and projectLogs, and every map entry is submitted to one  *)
(* of the two queues.                                                      *)
(*                                                                         *)
(* The batch is not fixed in the initial state: every step of a loop draws *)
(* the next resource, span, event or log record from a small set, so every *)
(* batch within the bounds is a behaviour.  The scope loop (otel.go 115,   *)
(* 320) contributes only the scope name, which goes into the Source field  *)
(* of an error; Source, Type, Event, the trace and span ids, timestamps,   *)
(* the severity and the attribute maps copied into a record are not part   *)
(* of the state: no grouping, routing or submission decision reads them.   *)
(***************************************************************************)
EXTENDS Integers, Sequences, FiniteSets, TLC

\* Bound of the model: the resources, spans and leaf records (span events or
\* log records) of one request, counted together.
MaxItems == 4

\* net/http status codes written by the handlers.
StatusOK == 200
StatusBadRequest == 400
StatusServiceUnavailable == 503

\* Reserved attribute keys and event names (highlight-go SDK, semconv).
ProjectIDAttribute == "highlight.project_id"
SessionIDAttribute == "highlight.session_id"
RequestIDAttribute == "highlight.trace_id"
ExceptionEventName == "exception"
ExceptionTypeKey == "exception.type"
ExceptionMessageKey == "exception.message"
ExceptionStacktraceKey == "exception.stacktrace"
LogName == "log"
LogSeverityKey == "log.severity"
LogMessageKey == "log.message"

ReservedKeys == {ProjectIDAttribute, SessionIDAttribute, RequestIDAttribute}

(***************************************************************************)
(* Attribute values.  AsRaw() yields interface{} values: a string, or a    *)
(* bool, number, byte slice, map or slice.  Str(s) is the string s;        *)
(* NonString stands for every value of another dynamic type; Nil is what a *)
(* map lookup of a missing key returns.                                    *)
(***************************************************************************)
Str(s) == [type |-> "string", str |-> s]
NonString == [type |-> "int", str |-> ""]
Nil == [type |-> "nil", str |-> ""]

\* attrs[key] of a Go map[string]any: the zero value nil when key is missing.
Get(attrs, key) == IF key \in DOMAIN attrs THEN attrs[key] ELSE Nil

\* The empty Go map.
EmptyMap == [k \in {} |-> Nil]

\* castString: the string behind v when v is a non-empty string, else fallback.
castString(v, fallback) ==
    LET s == IF v.type = "string" THEN v.str ELSE ""
    IN  IF s = "" THEN fallback ELSE s

(***************************************************************************)
(* setHighlightAttributes.  ids is the three running identifiers plus a    *)
(* flag telling that a type assertion p.(string) has panicked; SetAttr is  *)
(* one of its three if-blocks.                                             *)
(***************************************************************************)
\* A slip of SetAttr: the check for the empty string is missing.
SetAttrAlways(attrs, key, field, ids) ==
    IF ids.panic \/ key \notin DOMAIN attrs THEN ids
    ELSE IF attrs[key].type # "string" THEN [ids EXCEPT !.panic = TRUE]
    ELSE [ids EXCEPT ![field] = attrs[key].str]

SetAttr(attrs, key, field, ids) ==
    IF ids.panic \/ key \notin DOMAIN attrs THEN ids
    ELSE IF attrs[key].type # "string" THEN [ids EXCEPT !.panic = TRUE]
    ELSE IF attrs[key].str # "" THEN [ids EXCEPT ![field] = attrs[key].str]
    ELSE ids

setHighlightAttributes(attrs, ids) ==
    SetAttr(attrs, RequestIDAttribute, "requestID",
        SetAttr(attrs, SessionIDAttribute, "sessionID",
            SetAttr(attrs, ProjectIDAttribute, "projectID", ids)))

(***************************************************************************)
(* projectToInt.  ParseInt is strconv.ParseInt(s, 10, 32): an optional     *)
(* sign, then decimal digits only, and a value within the signed 32-bit    *)
(* range.  FromVerboseID is backend/model's decoder of the obfuscated      *)
(* display form of a project id.  Both return [ok, val]; ok = FALSE is a   *)
(* non-nil error.                                                          *)
(***************************************************************************)
MaxInt32 == 2147483647
MinInt32 == (0 - MaxInt32) - 1

DigitValue ==
    ("0" :> 0) @@ ("1" :> 1) @@ ("2" :> 2) @@ ("3" :> 3) @@ ("4" :> 4) @@
    ("5" :> 5) @@ ("6" :> 6) @@ ("7" :> 7) @@ ("8" :> 8) @@ ("9" :> 9)

\* The digits of s from position i on, read into neg, which is minus the
\* magnitude read so far; a magnitude beyond 2^31 is a range error.
RECURSIVE ParseDigits(_, _, _)
ParseDigits(s, i, neg) ==
    IF i > Len(s) THEN [ok |-> TRUE, val |-> neg]
    ELSE LET c == SubSeq(s, i, i)
         IN  IF c \notin DOMAIN DigitValue THEN [ok |-> FALSE, val |-> 0]
             ELSE IF neg < (MinInt32 + DigitValue[c] + 9) \div 10
             THEN [ok |-> FALSE, val |-> 0]
             ELSE ParseDigits(s, i + 1, neg * 10 - DigitValue[c])

ParseInt(s) ==
    LET first == IF Len(s) > 0 THEN SubSeq(s, 1, 1) ELSE ""
        digits == IF first \in {"+", "-"} THEN SubSeq(s, 2, Len(s)) ELSE s
        m == ParseDigits(digits, 1, 0)
    IN  IF Len(digits) = 0 \/ ~m.ok THEN [ok |-> FALSE, val |-> 0]
        ELSE IF first = "-" THEN [ok |-> TRUE, val |-> m.val]
        ELSE IF m.val < 0 - MaxInt32 THEN [ok |-> FALSE, val |-> 0]
        ELSE [ok |-> TRUE, val |-> 0 - m.val]

VerboseStrings == ("1jdkoe52" :> 1)

FromVerboseID(s) ==
    IF s \in DOMAIN VerboseStrings THEN [ok |-> TRUE, val |-> VerboseStrings[s]]
    ELSE [ok |-> FALSE, val |-> 1]

projectToInt(projectId) ==
    LET i == ParseInt(projectId)
        i2 == FromVerboseID(projectId)
    IN  IF i.ok THEN i
        ELSE IF i2.ok THEN i2
        ELSE [ok |-> FALSE, val |-> 0]

\* uint32(i) of a Go int, as two 16-bit halves.
Uint32(i) ==
    [hi |-> ((i - (i % 65536)) \div 65536) % 65536, lo |-> i % 65536]

(***************************************************************************)
(* Inputs.                                                                 *)
(***************************************************************************)
ProjectValues == {Str(""), Str("1"), Str("abc"), NonString}
SessionValues == {Str(""), Str("s1"), Str("s2"), NonString}
RequestValues == {Str(""), Str("r1"), NonString}

ValuesOf(key) ==
    CASE key = ProjectIDAttribute -> ProjectValues
      [] key = SessionIDAttribute -> SessionValues
      [] key = RequestIDAttribute -> RequestValues

\* The reserved-key part of an attribute map: at most one reserved key.
ReservedMaps ==
    UNION { {f \in [K -> ProjectValues \cup SessionValues \cup RequestValues] :
                \A k \in K : f[k] \in ValuesOf(k)} :
            K \in {S \in SUBSET ReservedKeys : Cardinality(S) <= 1} }

VARIABLES
    handler,            \* "trace" or "log": which handler serves the request
    pc,                 \* position of the handler
    status,             \* status code written to the response, 0 when none
    panicked,           \* the handler goroutine panicked
    resIdx,             \* resources entered so far (loop variable i, from 1)
    spanCount,          \* spans entered so far
    evCount,            \* leaf records (events, log records) entered so far
    resourceAttributes, \* of the current resource
    spanAttributes,     \* of the current span
    event,              \* the current span event: [Name, Attributes]
    logRecord,          \* the current log record: [Body, Attributes]
                        \* (a loop variable that is out of scope is empty)
    projectID,          \* var projectID of the current resource iteration
    sessionID,          \* var sessionID: one cell per resource iteration
    requestID,          \* var requestID: one cell per resource iteration
    traceErrors,        \* session id -> sequence of error records
    projectErrors,      \* project id -> sequence of error records
    projectLogs,        \* project id -> sequence of log rows
    ProducerQueue,      \* messages accepted by resolver.ProducerQueue.Submit
    BatchedQueue        \* messages accepted by resolver.BatchedQueue.Submit

vars == <<handler, pc, status, panicked, resIdx, spanCount, evCount,
          resourceAttributes, spanAttributes, event, logRecord, projectID,
          sessionID, requestID, traceErrors, projectErrors, projectLogs, ProducerQueue,
          BatchedQueue>>

buckets == <<traceErrors, projectErrors, projectLogs>>
queues == <<ProducerQueue, BatchedQueue>>
counters == <<resIdx, spanCount, evCount>>

locals == <<resourceAttributes, spanAttributes, event, logRecord>>
ids == <<projectID, sessionID, requestID>>

NoEvent == [Name |-> "", Attributes |-> EmptyMap]
NoLogRecord == [Body |-> Nil, Attributes |-> EmptyMap]

Init ==
    /\ handler = ""
    /\ pc = "start"
    /\ status = 0
    /\ panicked = FALSE
    /\ resIdx = 0
    /\ spanCount = 0
    /\ evCount = 0
    /\ resourceAttributes = EmptyMap
    /\ spanAttributes = EmptyMap
    /\ event = NoEvent
    /\ logRecord = NoLogRecord
    /\ projectID = ""
    /\ sessionID = << >>
    /\ requestID = << >>
    /\ traceErrors = EmptyMap
    /\ projectErrors = EmptyMap
    /\ projectLogs = EmptyMap
    /\ ProducerQueue = << >>
    /\ BatchedQueue = << >>

(***************************************************************************)
(* Decoding (otel.go 72-99, 281-308): io.ReadAll, gzip.NewReader,          *)
(* io.ReadAll of the gzip stream, UnmarshalProto.  Each failure answers    *)
(* 400 and returns.                                                        *)
(***************************************************************************)
DecodeOutcomes == {"ok", "body", "gzip format", "gzip stream", "protobuf"}

\* A slip of Decode: after http.Error the return is missing.
DecodeNoReturn(h) ==
    /\ pc = "start"
    /\ handler' = h
    /\ \E outcome \in DecodeOutcomes :
          /\ pc' = "resources"
          /\ status' = IF outcome = "ok" THEN status ELSE StatusBadRequest
    /\ UNCHANGED <<panicked, counters, locals, ids, buckets, queues>>

Decode(h) ==
    /\ pc = "start"
    /\ handler' = h
    /\ \E outcome \in DecodeOutcomes :
          IF outcome = "ok"
          THEN pc' = "resources" /\ status' = status
          ELSE pc' = "done" /\ status' = StatusBadRequest
    /\ UNCHANGED <<panicked, counters, locals, ids, buckets, queues>>

HandleTraceDecode == Decode("trace")
HandleLogDecode == Decode("log")

\* The batch has another element for the loop that asks.
MoreItems == resIdx + spanCount + evCount < MaxItems

\* The three identifier variables of the current resource iteration.
CurIds ==
    [projectID |-> projectID, sessionID |-> sessionID[resIdx],
     requestID |-> requestID[resIdx], panic |-> FALSE]

\* Assignment of the identifiers through the pointers passed to
\* setHighlightAttributes; a panic unwinds the handler.
StoreIds(new) ==
    /\ projectID' = new.projectID
    /\ sessionID' = [sessionID EXCEPT ![resIdx] = new.sessionID]
    /\ requestID' = [requestID EXCEPT ![resIdx] = new.requestID]
    /\ panicked' = new.panic

\* A slip of AppendTo: the record is put in front of the slice.
AppendToFront(m, key, rec) ==
    IF key \in DOMAIN m THEN [m EXCEPT ![key] = <<rec>> \o @]
    ELSE m @@ (key :> <<rec>>)

\* m[key] = append(m[key], rec), creating the entry when it is missing.
AppendTo(m, key, rec) ==
    IF key \in DOMAIN m THEN [m EXCEPT ![key] = Append(@, rec)]
    ELSE m @@ (key :> <<rec>>)

(***************************************************************************)
(* HandleTrace, the traversal (otel.go 106-234).                           *)
(***************************************************************************)
\* Lines 107-113: the next resource; its identifier variables are fresh.
NextResource ==
    /\ handler = "trace"
    /\ pc \in {"resources", "spans", "events"}
    /\ MoreItems
    /\ \E attrs \in ReservedMaps :
          LET new == setHighlightAttributes(attrs,
                        [projectID |-> "", sessionID |-> "", requestID |-> "",
                         panic |-> FALSE])
          IN  /\ resIdx' = resIdx + 1
              /\ resourceAttributes' = attrs
              /\ projectID' = new.projectID
              /\ sessionID' = Append(sessionID, new.sessionID)
              /\ requestID' = Append(requestID, new.requestID)
              /\ panicked' = new.panic
              /\ pc' = IF new.panic THEN "done" ELSE "spans"
    /\ spanAttributes' = EmptyMap
    /\ event' = NoEvent
    /\ UNCHANGED <<handler, status, spanCount, evCount, logRecord, buckets,
                   queues>>

\* Lines 118-127: the next span of the current resource (in any scope).
\* json.Marshal of the span attributes fails on a value it cannot encode;
\* the span is then skipped before its attributes are looked at.
NextSpan ==
    /\ handler = "trace"
    /\ pc \in {"spans", "events"}
    /\ MoreItems
    /\ \E attrs \in ReservedMaps, marshalErr \in BOOLEAN :
          /\ spanCount' = spanCount + 1
          /\ spanAttributes' = attrs
          /\ IF marshalErr
             THEN /\ pc' = "spans"
                  /\ UNCHANGED <<ids, panicked>>
             ELSE LET new == setHighlightAttributes(attrs, CurIds)
                  IN  /\ StoreIds(new)
                      /\ pc' = IF new.panic THEN "done" ELSE "events"
    /\ event' = NoEvent
    /\ UNCHANGED <<handler, status, resIdx, evCount, resourceAttributes,
                   logRecord, buckets, queues>>

\* A slip of ValidException: the stack trace is not looked at.
ValidExceptionNoStack(attrs) ==
    LET excType == castString(Get(attrs, ExceptionTypeKey), "")
        excMessage == castString(Get(attrs, ExceptionMessageKey), "")
    IN  ~(excType = "" /\ excMessage = "")

\* Lines 132-143: the validity check of an exception event.
ValidException(attrs) ==
    LET excType == castString(Get(attrs, ExceptionTypeKey), "")
        excMessage == castString(Get(attrs, ExceptionMessageKey), "")
        stackTrace == castString(Get(attrs, ExceptionStacktraceKey), "")
    IN  /\ stackTrace # ""
        /\ ~(excType = "" /\ excMessage = "")

\* Lines 145-163: the error record.  SessionSecureID and RequestID are
\* pointers to the identifier variables of the resource iteration.
ErrorObject ==
    [ev |-> evCount, SessionSecureID |-> resIdx, RequestID |-> resIdx]

\* A slip of ErrorBucket: the project id is looked at first.
ErrorBucketProjectFirst(new) ==
    IF new.projectID # "" THEN "projectErrors"
    ELSE IF new.sessionID # "" THEN "traceErrors"
    ELSE "none"

\* Lines 164-178: the bucket of an error record.
ErrorBucket(new) ==
    IF new.sessionID # "" THEN "traceErrors"
    ELSE IF new.projectID # "" THEN "projectErrors"
    ELSE "none"

ExceptionBranch(attrs, new) ==
    IF ~ValidException(attrs) THEN UNCHANGED buckets
    ELSE /\ traceErrors' =
               IF ErrorBucket(new) = "traceErrors"
               THEN AppendTo(traceErrors, new.sessionID, ErrorObject)
               ELSE traceErrors
         /\ projectErrors' =
               IF ErrorBucket(new) = "projectErrors"
               THEN AppendTo(projectErrors, new.projectID, ErrorObject)
               ELSE projectErrors
         /\ UNCHANGED projectLogs

\* Lines 207-219: the log row of a log event.
TraceLogRow(attrs, new) ==
    [ev |-> evCount,
     Body |-> castString(Get(attrs, LogMessageKey), ""),
     ProjectId |-> Uint32(projectToInt(new.projectID).val),
     SecureSessionId |-> new.sessionID]

\* A slip of LogBranch: the result of projectToInt is not checked.
LogBranchNoParse(attrs, new) ==
    IF castString(Get(attrs, LogMessageKey), "") = "" THEN UNCHANGED buckets
    ELSE IF new.projectID # ""
    THEN /\ projectLogs' =
               AppendTo(projectLogs, new.projectID, TraceLogRow(attrs, new))
         /\ UNCHANGED <<traceErrors, projectErrors>>
    ELSE UNCHANGED buckets

\* Lines 180-229: a log event.
LogBranch(attrs, new) ==
    IF castString(Get(attrs, LogMessageKey), "") = "" THEN UNCHANGED buckets
    ELSE IF ~projectToInt(new.projectID).ok THEN UNCHANGED buckets
    ELSE IF new.projectID # ""
    THEN /\ projectLogs' =
               AppendTo(projectLogs, new.projectID, TraceLogRow(attrs, new))
         /\ UNCHANGED <<traceErrors, projectErrors>>
    ELSE UNCHANGED buckets

(***************************************************************************)
(* The span events of the model.  Every reserved-key map is combined with  *)
(* a well-formed exception, a well-formed log and an event of another      *)
(* name; the ill-formed exceptions and logs carry no reserved key.         *)
(***************************************************************************)
Stack(v) == (ExceptionStacktraceKey :> v)
Type(v) == (ExceptionTypeKey :> v)
Message(v) == (ExceptionMessageKey :> v)

ExceptionAttrs ==
    { Stack(Str("at main")) @@ Type(Str("T")),
      Stack(Str("at main")) @@ Message(Str("m")),
      Stack(Str("at main")) @@ Type(Str("T")) @@ Message(Str("m")),
      Type(Str("T")) @@ Message(Str("m")),
      Stack(Str("")) @@ Type(Str("T")) @@ Message(Str("m")),
      Stack(NonString) @@ Type(Str("T")) @@ Message(Str("m")),
      Stack(Str("at main")),
      Stack(Str("at main")) @@ Type(Str("")) @@ Message(NonString),
      EmptyMap }

LogAttrs ==
    { (LogMessageKey :> Str("m")), (LogMessageKey :> Str("")),
      (LogMessageKey :> NonString), EmptyMap }

SpanEvents ==
    { [Name |-> ExceptionEventName,
       Attributes |-> r @@ Stack(Str("at main")) @@ Type(Str("T"))] :
        r \in ReservedMaps }
    \cup { [Name |-> ExceptionEventName, Attributes |-> x] :
        x \in ExceptionAttrs }
    \cup { [Name |-> LogName, Attributes |-> r @@ (LogMessageKey :> Str("m"))] :
        r \in ReservedMaps }
    \cup { [Name |-> LogName, Attributes |-> x] : x \in LogAttrs }
    \cup { [Name |-> "message", Attributes |-> r] : r \in ReservedMaps }

\* Lines 128-130: the event loop advances to the next event of the span.
FetchEvent ==
    /\ handler = "trace"
    /\ pc = "events"
    /\ MoreItems
    /\ \E e \in SpanEvents : event' = e
    /\ evCount' = evCount + 1
    /\ pc' = "event"
    /\ UNCHANGED <<handler, status, panicked, resIdx, spanCount,
                   resourceAttributes, spanAttributes, logRecord, ids, buckets,
                   queues>>

\* Lines 131-230: the body of the event loop on the fetched event.
ClassifyEvent ==
    /\ handler = "trace"
    /\ pc = "event"
    /\ LET new == setHighlightAttributes(event.Attributes, CurIds)
       IN  /\ StoreIds(new)
           /\ IF new.panic
              THEN pc' = "done" /\ UNCHANGED buckets
              ELSE /\ pc' = "events"
                   /\ IF event.Name = ExceptionEventName
                      THEN ExceptionBranch(event.Attributes, new)
                      ELSE IF event.Name = LogName
                      THEN LogBranch(event.Attributes, new)
                      ELSE UNCHANGED buckets
    /\ UNCHANGED <<handler, status, counters, locals, queues>>

(***************************************************************************)
(* HandleTrace, the submissions (otel.go 236-278).  A range loop over a Go *)
(* map visits every key once, in an order the language does not fix: the  *)
(* keys already visited are those with a message in the queue, and any     *)
(* other key may come next.  The first submission also ends the traversal. *)
(***************************************************************************)
LoopHeads == {"resources", "spans", "events"}

\* The loops are over: the variables declared in their bodies are gone.
LeaveLoops ==
    /\ resourceAttributes' = EmptyMap
    /\ spanAttributes' = EmptyMap
    /\ event' = NoEvent
    /\ logRecord' = NoLogRecord

\* The keys of the messages in queue q that are addressed through field.
SubmittedKeys(q, field) ==
    { q[n].key : n \in { m \in DOMAIN q : q[m].addr = field } }

\* The errors of a message as Submit sees them: the pointers followed.
ErrorsOf(errors) ==
    [ n \in DOMAIN errors |->
        [ev |-> errors[n].ev,
         SessionSecureID |-> sessionID[errors[n].SessionSecureID],
         RequestID |-> requestID[errors[n].RequestID]] ]

PendingTraceErrors ==
    DOMAIN traceErrors \ SubmittedKeys(ProducerQueue, "SessionSecureID")
PendingProjectErrors ==
    DOMAIN projectErrors \ SubmittedKeys(ProducerQueue, "ProjectVerboseID")
PendingProjectLogs ==
    DOMAIN projectLogs \ SubmittedKeys(BatchedQueue, "PushLogs")

\* A slip of SubmitFailed: the loop goes on after the failure.
SubmitFailedContinue ==
    /\ status' = StatusServiceUnavailable
    /\ pc' = "submit"
    /\ UNCHANGED queues

\* if err != nil { w.WriteHeader(503); return }
SubmitFailed ==
    /\ status' = StatusServiceUnavailable
    /\ pc' = "done"
    /\ UNCHANGED queues

\* Lines 236-248.
SubmitTraceErrors ==
    /\ handler = "trace"
    /\ pc \in LoopHeads \cup {"submit"}
    /\ \E key \in PendingTraceErrors, err \in BOOLEAN :
          IF err THEN SubmitFailed
          ELSE /\ ProducerQueue' = Append(ProducerQueue,
                     [Type |-> "PushBackendPayload", addr |-> "SessionSecureID",
                      key |-> key, records |-> ErrorsOf(traceErrors[key])])
               /\ pc' = "submit"
               /\ UNCHANGED <<status, BatchedQueue>>
    /\ LeaveLoops
    /\ UNCHANGED <<handler, panicked, counters, ids, buckets>>

\* Lines 250-262.
SubmitProjectErrors ==
    /\ handler = "trace"
    /\ pc \in LoopHeads \cup {"submit"}
    /\ PendingTraceErrors = {}
    /\ \E key \in PendingProjectErrors, err \in BOOLEAN :
          IF err THEN SubmitFailed
          ELSE /\ ProducerQueue' = Append(ProducerQueue,
                     [Type |-> "PushBackendPayload", addr |-> "ProjectVerboseID",
                      key |-> key, records |-> ErrorsOf(projectErrors[key])])
               /\ pc' = "submit"
               /\ UNCHANGED <<status, BatchedQueue>>
    /\ LeaveLoops
    /\ UNCHANGED <<handler, panicked, counters, ids, buckets>>

\* A slip of SubmitProjectLogs: the log loop does not wait for the two
\* error loops.
SubmitProjectLogsFirst ==
    /\ handler = "trace"
    /\ pc \in LoopHeads \cup {"submit"}
    /\ \E key \in PendingProjectLogs, err \in BOOLEAN :
          IF err THEN SubmitFailed
          ELSE /\ BatchedQueue' = Append(BatchedQueue,
                     [Type |-> "PushLogs", addr |-> "PushLogs",
                      key |-> key, records |-> projectLogs[key]])
               /\ pc' = "submit"
               /\ UNCHANGED <<status, ProducerQueue>>
    /\ LeaveLoops
    /\ UNCHANGED <<handler, panicked, counters, ids, buckets>>

\* Lines 264-275.
SubmitProjectLogs ==
    /\ handler = "trace"
    /\ pc \in LoopHeads \cup {"submit"}
    /\ PendingTraceErrors = {}
    /\ PendingProjectErrors = {}
    /\ \E key \in PendingProjectLogs, err \in BOOLEAN :
          IF err THEN SubmitFailed
          ELSE /\ BatchedQueue' = Append(BatchedQueue,
                     [Type |-> "PushLogs", addr |-> "PushLogs",
                      key |-> key, records |-> projectLogs[key]])
               /\ pc' = "submit"
               /\ UNCHANGED <<status, ProducerQueue>>
    /\ LeaveLoops
    /\ UNCHANGED <<handler, panicked, counters, ids, buckets>>

\* Line 277.
TraceWriteOK ==
    /\ handler = "trace"
    /\ pc \in LoopHeads \cup {"submit"}
    /\ PendingTraceErrors = {}
    /\ PendingProjectErrors = {}
    /\ PendingProjectLogs = {}
    /\ status' = StatusOK
    /\ pc' = "done"
    /\ LeaveLoops
    /\ UNCHANGED <<handler, panicked, counters, ids, buckets, queues>>

(***************************************************************************)
(* HandleLog (otel.go 310-386).                                            *)
(***************************************************************************)
\* Lines 313-318: the next resource.
LogNextResource ==
    /\ handler = "log"
    /\ pc \in {"resources", "records"}
    /\ MoreItems
    /\ \E attrs \in ReservedMaps :
          LET new == setHighlightAttributes(attrs,
                        [projectID |-> "", sessionID |-> "", requestID |-> "",
                         panic |-> FALSE])
          IN  /\ resIdx' = resIdx + 1
              /\ resourceAttributes' = attrs
              /\ projectID' = new.projectID
              /\ sessionID' = Append(sessionID, new.sessionID)
              /\ requestID' = Append(requestID, new.requestID)
              /\ panicked' = new.panic
              /\ pc' = IF new.panic THEN "done" ELSE "records"
    /\ logRecord' = NoLogRecord
    /\ UNCHANGED <<handler, status, spanCount, evCount, spanAttributes, event,
                   buckets, queues>>

\* The body of a log record is a string or a value of another type.
LogRecords ==
    { [Body |-> b, Attributes |-> r] :
        b \in {Str("m"), Str(""), NonString}, r \in ReservedMaps }

\* Lines 322-324: the next log record of the resource (in any scope).
FetchLogRecord ==
    /\ handler = "log"
    /\ pc = "records"
    /\ MoreItems
    /\ \E r \in LogRecords : logRecord' = r
    /\ evCount' = evCount + 1
    /\ pc' = "record"
    /\ UNCHANGED <<handler, status, panicked, resIdx, spanCount,
                   resourceAttributes, spanAttributes, event, ids, buckets,
                   queues>>

\* Lines 345-357: the log row.  Body().Str() is "" when the body is no string.
LogRow(rec, new) ==
    [ev |-> evCount,
     Body |-> IF rec.Body.type = "string" THEN rec.Body.str ELSE "",
     ProjectId |-> Uint32(projectToInt(new.projectID).val),
     SecureSessionId |-> new.sessionID]

\* Lines 326-367: what the loop body does with the row.
LogRecordBranch(rec, new) ==
    IF ~projectToInt(new.projectID).ok THEN UNCHANGED buckets
    ELSE IF new.projectID # ""
    THEN /\ projectLogs' =
               AppendTo(projectLogs, new.projectID, LogRow(rec, new))
         /\ UNCHANGED <<traceErrors, projectErrors>>
    ELSE UNCHANGED buckets

\* Lines 325-367: the body of the record loop on the fetched record.
ProcessLogRecord ==
    /\ handler = "log"
    /\ pc = "record"
    /\ LET new == setHighlightAttributes(logRecord.Attributes, CurIds)
       IN  /\ StoreIds(new)
           /\ IF new.panic
              THEN pc' = "done" /\ UNCHANGED buckets
              ELSE /\ pc' = "records"
                   /\ LogRecordBranch(logRecord, new)
    /\ UNCHANGED <<handler, status, counters, locals, queues>>

\* Lines 372-383.
LogSubmit ==
    /\ handler = "log"
    /\ pc \in {"resources", "records", "submit"}
    /\ \E key \in PendingProjectLogs, err \in BOOLEAN :
          IF err THEN SubmitFailed
          ELSE /\ BatchedQueue' = Append(BatchedQueue,
                     [Type |-> "PushLogs", addr |-> "PushLogs",
                      key |-> key, records |-> projectLogs[key]])
               /\ pc' = "submit"
               /\ UNCHANGED <<status, ProducerQueue>>
    /\ LeaveLoops
    /\ UNCHANGED <<handler, panicked, counters, ids, buckets>>

\* Line 385.
LogWriteOK ==
    /\ handler = "log"
    /\ pc \in {"resources", "records", "submit"}
    /\ PendingProjectLogs = {}
    /\ status' = StatusOK
    /\ pc' = "done"
    /\ LeaveLoops
    /\ UNCHANGED <<handler, panicked, counters, ids, buckets, queues>>

Next ==
    \/ HandleTraceDecode
    \/ HandleLogDecode
    \/ NextResource
    \/ NextSpan
    \/ FetchEvent
    \/ ClassifyEvent
    \/ SubmitTraceErrors
    \/ SubmitProjectErrors
    \/ SubmitProjectLogs
    \/ TraceWriteOK
    \/ LogNextResource
    \/ FetchLogRecord
    \/ ProcessLogRecord
    \/ LogSubmit
    \/ LogWriteOK

Spec == Init /\ [][Next]_vars

(***************************************************************************)
(* Properties.                                                             *)
(***************************************************************************)
IsPrefix(a, b) == Len(a) <= Len(b) /\ SubSeq(b, 1, Len(a)) = a

\* The positions <<key, n>> of a bucket, and those holding the record of
\* leaf record e.
Positions(b) == UNION { { <<k, n>> : n \in DOMAIN b[k] } : k \in DOMAIN b }
Count(b, e) == Cardinality({ p \in Positions(b) : b[p[1]][p[2]].ev = e })
Holds(b, key, e) == key \in DOMAIN b /\ \E n \in DOMAIN b[key] : b[key][n].ev = e

\* The leaf records behind a sequence of records, and traversal order.
Evs(records) == [ n \in DOMAIN records |-> records[n].ev ]
Increasing(seq) == \A i, j \in DOMAIN seq : i < j => seq[i] < seq[j]

\* C1: once a Submit has failed the response is 503, the handler has
\* returned and no queue changes any more; a message a queue has accepted
\* stays in it, so both queues only ever grow at their end.
C1_SubmitFailureAborts ==
    [][ /\ IsPrefix(ProducerQueue, ProducerQueue')
        /\ IsPrefix(BatchedQueue, BatchedQueue')
        /\ (status' = StatusServiceUnavailable => pc' = "done")
        /\ (status = StatusServiceUnavailable =>
               status' = status /\ queues' = queues)
        /\ (status # StatusServiceUnavailable /\ status' = StatusServiceUnavailable
               => queues' = queues) ]_vars

\* C1: a request has ended with 503 after some, but not all, of its buckets
\* were delivered.
C1_Witness ==
    /\ status = StatusServiceUnavailable
    /\ pc = "done"
    /\ Len(ProducerQueue) + Len(BatchedQueue) > 0
    /\ PendingTraceErrors \cup PendingProjectErrors \cup PendingProjectLogs # {}

\* Bucket b went out through queue q, addressed by field: one message per
\* key, with the bucket's records in the bucket's order, and no message for
\* a key the bucket does not have.
Delivered(b, q, field) ==
    /\ \A k \in DOMAIN b :
          /\ Cardinality({ n \in DOMAIN q : q[n].addr = field /\ q[n].key = k }) = 1
          /\ \A n \in DOMAIN q :
                q[n].addr = field /\ q[n].key = k
                    => Evs(q[n].records) = Evs(b[k]) /\ Increasing(Evs(b[k]))
    /\ \A n \in DOMAIN q : q[n].addr = field => q[n].key \in DOMAIN b

\* C2: when HandleTrace answers 200, every key of the three buckets has
\* exactly one message in its queue, holding all records of the key once
\* each, in traversal order; no leaf record is in two messages.
C2_OneMessagePerKey ==
    (handler = "trace" /\ status = StatusOK) =>
        /\ Delivered(traceErrors, ProducerQueue, "SessionSecureID")
        /\ Delivered(projectErrors, ProducerQueue, "ProjectVerboseID")
        /\ Delivered(projectLogs, BatchedQueue, "PushLogs")
        /\ \A e \in 1..evCount :
              Count(traceErrors, e) + Count(projectErrors, e)
                  + Count(projectLogs, e) <= 1

\* C2: a 200 after a message that carries two errors of one session.
C2_Witness ==
    /\ handler = "trace"
    /\ status = StatusOK
    /\ \E n \in DOMAIN ProducerQueue :
          /\ ProducerQueue[n].addr = "SessionSecureID"
          /\ Len(ProducerQueue[n].records) = 2

\* C3: the step that classifies a well-formed exception event puts its
\* record once under the resolved session id when there is one, else once
\* under the resolved project id when there is one, else nowhere and the
\* traversal goes on; it never touches the log bucket, a log event never
\* touches an error bucket, and no leaf record is in two places.
C3_ExactlyOneBucket ==
    [][ /\ (pc = "event" /\ event.Name = ExceptionEventName
              /\ ValidException(event.Attributes) /\ ~panicked') =>
               LET sid == sessionID'[resIdx]
                   pid == projectID'
                   inTrace == Count(traceErrors', evCount)
                   inProject == Count(projectErrors', evCount)
               IN  /\ sid # "" =>
                        /\ inTrace = 1 /\ inProject = 0
                        /\ Holds(traceErrors', sid, evCount)
                   /\ (sid = "" /\ pid # "") =>
                        /\ inTrace = 0 /\ inProject = 1
                        /\ Holds(projectErrors', pid, evCount)
                   /\ (sid = "" /\ pid = "") => inTrace = 0 /\ inProject = 0
                   /\ pc' = "events"
        /\ (pc = "event" /\ event.Name = ExceptionEventName) =>
               projectLogs' = projectLogs
        /\ (pc = "event" /\ event.Name = LogName) =>
               traceErrors' = traceErrors /\ projectErrors' = projectErrors
        /\ \A e \in 1..evCount' :
               Count(traceErrors', e) + Count(projectErrors', e)
                   + Count(projectLogs', e) <= 1 ]_vars

\* C3: an exception was put under its session id although a project id
\* was resolved as well.
C3_Witness ==
    /\ pc = "events"
    /\ event.Name = ExceptionEventName
    /\ projectID # ""
    /\ sessionID[resIdx] # ""
    /\ Holds(traceErrors, sessionID[resIdx], evCount)
    /\ Count(projectErrors, evCount) = 0

\* The identifiers an error record shows when its pointers are followed.
SessionOf(rec) == sessionID[rec.SessionSecureID]
RequestOf(rec) == requestID[rec.RequestID]

\* C4: no step changes the session id or the request id of an error record
\* that is already in a bucket, and a message addressed to session K
\* carries only records whose session id is K.
C4_NoBackwardLeak ==
    [][ /\ \A b \in {traceErrors, projectErrors} :
              \A k \in DOMAIN b : \A n \in DOMAIN b[k] :
                 /\ SessionOf(b[k][n])' = SessionOf(b[k][n])
                 /\ RequestOf(b[k][n])' = RequestOf(b[k][n])
        /\ \A n \in DOMAIN ProducerQueue' :
              ProducerQueue'[n].addr = "SessionSecureID" =>
                 \A r \in DOMAIN ProducerQueue'[n].records :
                    ProducerQueue'[n].records[r].SessionSecureID
                        = ProducerQueue'[n].key ]_vars

\* The identifiers resolved from an ancestor chain alone, outer to inner.
Blank == [projectID |-> "", sessionID |-> "", requestID |-> "", panic |-> FALSE]
ChainOfEvent ==
    setHighlightAttributes(event.Attributes,
        setHighlightAttributes(spanAttributes,
            setHighlightAttributes(resourceAttributes, Blank)))
ChainOfLogRecord ==
    setHighlightAttributes(logRecord.Attributes,
        setHighlightAttributes(resourceAttributes, Blank))
Running ==
    [projectID |-> projectID, sessionID |-> sessionID[resIdx],
     requestID |-> requestID[resIdx], panic |-> FALSE]

\* C5: the identifiers a leaf record was classified with are those resolved
\* from its own chain: the attributes of its resource, of its span (trace)
\* and of the record itself, and nothing else.
C5_OwnChainOnly ==
    /\ (pc = "events" /\ event # NoEvent) => Running = ChainOfEvent
    /\ (pc = "records" /\ logRecord # NoLogRecord) => Running = ChainOfLogRecord

\* C7: a reserved key with a non-string value is treated as absent: the
\* handler never crashes and every request ends with a status code.
C7_NonStringTreatedAsAbsent ==
    /\ ~panicked
    /\ pc = "done" => status \in {StatusOK, StatusBadRequest, StatusServiceUnavailable}

\* C9: no log row with an empty body is in the log bucket or in a message
\* of the log queue, whichever handler built it.
C9_NoEmptyBody ==
    /\ \A k \in DOMAIN projectLogs : \A n \in DOMAIN projectLogs[k] :
          projectLogs[k][n].Body # ""
    /\ \A m \in DOMAIN BatchedQueue : \A n \in DOMAIN BatchedQueue[m].records :
          BatchedQueue[m].records[n].Body # ""

\* What one of the three if-blocks is to leave in the running value cur.
NonEmptyString(v) == v.type = "string" /\ v.str # ""
Overwritten(attrs, key, cur) ==
    IF NonEmptyString(Get(attrs, key)) THEN attrs[key].str ELSE cur
ResolvedFrom(attrs, old) ==
    [projectID |-> Overwritten(attrs, ProjectIDAttribute, old.projectID),
     sessionID |-> Overwritten(attrs, SessionIDAttribute, old.sessionID),
     requestID |-> Overwritten(attrs, RequestIDAttribute, old.requestID),
     panic |-> FALSE]
RunningNext ==
    [projectID |-> projectID', sessionID |-> sessionID'[resIdx'],
     requestID |-> requestID'[resIdx'], panic |-> FALSE]

\* C6: at each of the four places that call setHighlightAttributes (a
\* resource, a span, an event, a log record), each of the three identifiers
\* becomes the attribute's value when that is a non-empty string and keeps
\* its running value when the key is absent or holds the empty string.
C6_NonEmptyOverwrites ==
    [][ /\ (resIdx' = resIdx + 1 /\ ~panicked') =>
               RunningNext = ResolvedFrom(resourceAttributes', Blank)
        /\ (spanCount' = spanCount + 1 /\ pc' = "events") =>
               RunningNext = ResolvedFrom(spanAttributes', Running)
        /\ (pc = "event" /\ pc' = "events") =>
               RunningNext = ResolvedFrom(event.Attributes, Running)
        /\ (pc = "record" /\ pc' = "records") =>
               RunningNext = ResolvedFrom(logRecord.Attributes, Running) ]_vars

\* C6: an exception was classified under the session id of its resource
\* although its span gave the session id as the empty string.
C6_Witness ==
    /\ pc = "events"
    /\ event.Name = ExceptionEventName
    /\ Get(resourceAttributes, SessionIDAttribute) = Str("s1")
    /\ Get(spanAttributes, SessionIDAttribute) = Str("")
    /\ sessionID[resIdx] = "s1"
    /\ Holds(traceErrors, "s1", evCount)

\* An exception event with a non-empty stack trace string and a non-empty
\* type or message string.
WellFormed(attrs) ==
    /\ NonEmptyString(Get(attrs, ExceptionStacktraceKey))
    /\ \/ NonEmptyString(Get(attrs, ExceptionTypeKey))
       \/ NonEmptyString(Get(attrs, ExceptionMessageKey))

ErrorCount(e) == Count(traceErrors, e) + Count(projectErrors, e)
ErrorCountNext(e) == Count(traceErrors', e) + Count(projectErrors', e)

\* C8: the step that classifies an exception event leaves one error record
\* of it exactly when the event has a non-empty stack trace string and a
\* non-empty type or message string and a session or project id was
\* resolved, and none otherwise; no other step adds or removes a record of
\* the event, and every error in a submitted message is a record of a bucket.
C8_ErrorRecordIff ==
    [][ /\ (pc = "event" /\ event.Name = ExceptionEventName) =>
               /\ ErrorCountNext(evCount) \in {0, 1}
               /\ ErrorCountNext(evCount) = 1 <=>
                     /\ WellFormed(event.Attributes)
                     /\ ~panicked'
                     /\ (sessionID'[resIdx] # "" \/ projectID' # "")
               /\ Count(projectLogs', evCount) = 0
        /\ \A e \in 1..evCount :
               (pc # "event" \/ e # evCount) => ErrorCountNext(e) = ErrorCount(e)
        /\ \A n \in DOMAIN ProducerQueue' :
               \A r \in DOMAIN ProducerQueue'[n].records :
                  ErrorCountNext(ProducerQueue'[n].records[r].ev) = 1 ]_vars

\* C8: an exception with an empty stack trace, a type and a message was
\* dropped although a session id was resolved.
C8_Witness ==
    /\ pc = "events"
    /\ event.Name = ExceptionEventName
    /\ Get(event.Attributes, ExceptionStacktraceKey) = Str("")
    /\ Get(event.Attributes, ExceptionTypeKey) = Str("T")
    /\ sessionID[resIdx] # ""
    /\ ErrorCount(evCount) = 0

\* A project id no log row may be filed under.
Rejected(p) == p = "" \/ ~projectToInt(p).ok

\* C10: the step that handles a log event or a log record whose resolved
\* project id is empty or rejected by projectToInt changes no bucket, no
\* queue and no status and leaves the handler in its loop; the log bucket
\* and the log queue never hold such a key.
C10_BadProjectDropped ==
    [][ /\ ( /\ \/ pc = "event" /\ event.Name = LogName
                \/ pc = "record"
             /\ ~panicked'
             /\ Rejected(projectID') ) =>
               /\ buckets' = buckets
               /\ queues' = queues
               /\ status' = status
               /\ pc' \in {"events", "records"}
        /\ \A k \in DOMAIN projectLogs' : ~Rejected(k)
        /\ \A n \in DOMAIN BatchedQueue' : ~Rejected(BatchedQueue'[n].key) ]_vars

\* C10: a log event with an unparseable project id was dropped after the
\* log event before it had been filed.
C10_Witness ==
    /\ handler = "trace"
    /\ pc = "events"
    /\ event.Name = LogName
    /\ NonEmptyString(Get(event.Attributes, LogMessageKey))
    /\ projectID = "abc"
    /\ evCount = 2
    /\ Count(projectLogs, 2) = 0
    /\ Count(projectLogs, 1) = 1

\* C11: a request answered 400 (a decode step of HandleTrace or HandleLog
\* failed) has returned with no resource, span or leaf record looked at,
\* every bucket empty and no message in either queue; and a handler that
\* returned without entering the traversal answered 400 or, the batch being
\* empty, 200.
C11_DecodeFailureAborts ==
    /\ status = StatusBadRequest =>
          /\ pc = "done"
          /\ ~panicked
          /\ resIdx = 0 /\ spanCount = 0 /\ evCount = 0
          /\ traceErrors = EmptyMap
          /\ projectErrors = EmptyMap
          /\ projectLogs = EmptyMap
          /\ ProducerQueue = << >>
          /\ BatchedQueue = << >>
    /\ (pc = "done" /\ resIdx = 0) => status \in {StatusBadRequest, StatusOK}

\* C11: HandleLog has answered 400 and returned.
C11_Witness ==
    /\ handler = "log"
    /\ status = StatusBadRequest
    /\ pc = "done"

(***************************************************************************)
(* The requests of C12: HandleTrace on the batches none of whose span      *)
(* events is named with the exception marker or the log marker.  Every     *)
(* action of the handler is kept; only the batches are restricted.         *)
(***************************************************************************)
UnmarkedStep ==
    /\ handler' = "trace"
    /\ event'.Name \notin {ExceptionEventName, LogName}

NextUnmarked == Next /\ UnmarkedStep

SpecUnmarked == Init /\ [][NextUnmarked]_vars

\* C12: on a decoded trace batch without exception and log events
\* HandleTrace calls Submit not once (no message in a queue, no 503) and,
\* when it has returned, has answered 200.
C12_NoMarkedEventNoSubmit ==
    /\ ProducerQueue = << >>
    /\ BatchedQueue = << >>
    /\ status # StatusServiceUnavailable
    /\ (pc = "done" /\ status # StatusBadRequest) => status = StatusOK

(***************************************************************************)
(* The requests of C13: both handlers on a batch of one resource whose     *)
(* attributes give the project id, drawn from ProjectIdStrings; no span,   *)
(* span event or log record carries an identifier of its own, and every    *)
(* span event is a log event.  The initial states are those in which the   *)
(* resource has just been entered (otel.go 107-113, 313-318).              *)
(***************************************************************************)
ProjectIdStrings ==
    { "", "0", "1", "-1", "+1", "-0", "007", "42", "-42", "65535", "65536",
      "-65536", "2147483647", "2147483648", "-2147483647", "-2147483648",
      "-2147483649", "4294967295", "99999999999", "abc", "1a", "-", "+",
      "--1", "1.5", " 1", "1jdkoe52" }

InitProjectId ==
    /\ handler \in {"trace", "log"}
    /\ pc = IF handler = "trace" THEN "spans" ELSE "records"
    /\ status = 0
    /\ panicked = FALSE
    /\ resIdx = 1
    /\ spanCount = 0
    /\ evCount = 0
    /\ \E p \in ProjectIdStrings :
          /\ resourceAttributes = (ProjectIDAttribute :> Str(p))
          /\ projectID = setHighlightAttributes(resourceAttributes, Blank).projectID
    /\ spanAttributes = EmptyMap
    /\ event = NoEvent
    /\ logRecord = NoLogRecord
    /\ sessionID = <<"">>
    /\ requestID = <<"">>
    /\ traceErrors = EmptyMap
    /\ projectErrors = EmptyMap
    /\ projectLogs = EmptyMap
    /\ ProducerQueue = << >>
    /\ BatchedQueue = << >>

ProjectIdStep ==
    /\ resIdx' = 1
    /\ spanAttributes' = EmptyMap
    /\ event'.Name \in {"", LogName}
    /\ DOMAIN event'.Attributes \cap ReservedKeys = {}
    /\ logRecord'.Attributes = EmptyMap

NextProjectId == Next /\ ProjectIdStep

SpecProjectId == InitProjectId /\ [][NextProjectId]_vars

\* The integer behind an unsigned 32-bit value is v.
Uint32Is(u, v) == v >= 0 /\ u.hi < 32768 /\ u.hi * 65536 + u.lo = v

\* C13: every log row filed under a project id that the decimal parse of
\* projectToInt accepts, in the log bucket or in a message of the log
\* queue, stores as ProjectId the integer that projectToInt returned.
C13_ProjectIdKeepsValue ==
    /\ \A k \in DOMAIN projectLogs : \A n \in DOMAIN projectLogs[k] :
          ParseInt(k).ok =>
              Uint32Is(projectLogs[k][n].ProjectId, projectToInt(k).val)
    /\ \A m \in DOMAIN BatchedQueue : \A n \in DOMAIN BatchedQueue[m].records :
          ParseInt(BatchedQueue[m].key).ok =>
              Uint32Is(BatchedQueue[m].records[n].ProjectId,
                       projectToInt(BatchedQueue[m].key).val)

\* The positions of the messages of queue q that are addressed through field.
Addressed(q, field) == { n \in DOMAIN q : q[n].addr = field }

\* C14: in a HandleTrace request the error queue holds the session-keyed
\* messages before the project-keyed ones and nothing else, the log queue
\* holds log messages only; once a project-keyed error message is in the
\* queue no session key is pending, once a log message is in the queue no
\* error key is pending, and a request that failed with an error key still
\* pending has submitted no log message.
C14_FixedSubmissionOrder ==
    handler = "trace" =>
        /\ \A n \in DOMAIN ProducerQueue :
              /\ ProducerQueue[n].Type = "PushBackendPayload"
              /\ ProducerQueue[n].addr \in {"SessionSecureID", "ProjectVerboseID"}
        /\ \A n \in DOMAIN BatchedQueue : BatchedQueue[n].Type = "PushLogs"
        /\ \A i \in Addressed(ProducerQueue, "SessionSecureID") :
              \A j \in Addressed(ProducerQueue, "ProjectVerboseID") : i < j
        /\ Addressed(ProducerQueue, "ProjectVerboseID") # {}
              => PendingTraceErrors = {}
        /\ BatchedQueue # << >>
              => PendingTraceErrors = {} /\ PendingProjectErrors = {}
        /\ ( /\ status = StatusServiceUnavailable
             /\ PendingTraceErrors \cup PendingProjectErrors # {} )
              => BatchedQueue = << >>

\* C14: HandleTrace has answered 200 after a session-keyed and then a
\* project-keyed error message.
C14_Witness ==
    /\ handler = "trace"
    /\ status = StatusOK
    /\ Len(ProducerQueue) = 2
    /\ ProducerQueue[1].addr = "SessionSecureID"
    /\ ProducerQueue[2].addr = "ProjectVerboseID"

====
